---- MODULE Spec2Model ----
(***************************************************************************)
(* Model of the data reliability and normalisation layer of the report     *)
(* generator: src/data_utils.py (validators, sanitizer, formatters,        *)
(* recency filters) and the parts of src/report_generator.py that consume  *)
(* their verdicts.                                                         *)
(*                                                                         *)
(* The helpers are pure functions.  Each one is an operator computed the   *)
(* way the Python code computes it.  The initial states are the pending    *)
(* calls (op, arg) with inputs drawn from bounded sets; each helper has    *)
(* one action that runs a pending call of it and records the outcome in    *)
(* res: a returned value or a raised exception.                            *)
(*                                                                         *)
(* ReportGenerator.generate_all_reports is a second specification,         *)
(* SpecReports: one action per step of its ticker loop, with the reports   *)
(* of the agents drawn from small sets.                                    *)
(*                                                                         *)
(* Python floats are modelled as finite fixed-point numbers with four      *)
(* decimals (an integer count of 1/Scale); NaN and the infinities are      *)
(* outside the value domain.  Python strings are sequences of one-         *)
(* character strings.                                                      *)
(***************************************************************************)
EXTENDS Integers, Sequences, FiniteSets, TLC

VARIABLES op, arg, res

\* the state of one run of ReportGenerator.generate_all_reports: the place
\* in its ticker loop, the reports the agents returned for the ticker, the
\* five aggregated reports, what it printed for each ticker, and the files
\* it wrote
VARIABLES pc, index, reports, historical_all, volatility_all, news_all,
          insider_all, sentiment_all, log, written

run == <<pc, index, reports, historical_all, volatility_all, news_all,
         insider_all, sentiment_all, log, written>>

vars == <<op, arg, res, run>>

(***************************************************************************)
(* Python values that an untrusted record can carry in a field: a tag t,   *)
(* the number n (for a float) and the characters s (for a str).            *)
(***************************************************************************)
Scale == 100 * 100

PyNone == [t |-> "none", n |-> 0, s |-> <<>>]

\* an attribute the object does not have
Missing == [t |-> "missing", n |-> 0, s |-> <<>>]

\* a value that is neither None, a number nor a string (a list, a dict)
PyObj == [t |-> "obj", n |-> 0, s |-> <<>>]

\* the float n / Scale
Num(k) == [t |-> "num", n |-> k, s |-> <<>>]

\* the str whose characters are s
Str(x) == [t |-> "str", n |-> 0, s |-> x]

\* the whole number k as a fixed-point value
Whole(k) == k * Scale

\* the number h / 100 as a fixed-point value
Hundredths(h) == h * 100

Abs(n) == IF n < 0 THEN -n ELSE n

(***************************************************************************)
(* Outcomes of a call.                                                     *)
(***************************************************************************)
Ret(x) == [kind |-> "return", val |-> x, exc |-> "-"]

Raise(e) == [kind |-> "raise", val |-> PyNone, exc |-> e]

\* the call has not run yet
Pending == [kind |-> "pending", val |-> PyNone, exc |-> "-"]

Returned(r) == r.kind = "return"

Raised(r) == r.kind = "raise"

IsNum(x) == x.t = "num"

(***************************************************************************)
(* sanitize_dividend_yield                                                 *)
(***************************************************************************)
\* the sanitizer with the plausibility cap taken as exclusive
sanitize_dividend_yield_cap_exclusive(raw) ==
    IF raw.t = "none" THEN Ret(PyNone)
    ELSE IF ~IsNum(raw) THEN Raise("TypeError")
    ELSE IF raw.n < 0 THEN Ret(PyNone)
    ELSE IF raw.n > Whole(1000) THEN Ret(PyNone)
    ELSE IF raw.n > Whole(50) THEN Ret(PyNone)
    ELSE IF raw.n > Whole(1)
         THEN LET normalized == raw.n \div 100
              IN  IF normalized * 4 < Whole(1) THEN Ret(Num(normalized))
                                               ELSE Ret(PyNone)
    ELSE Ret(raw)

\* comparing None is excluded by the first test; comparing a str or an
\* object with a number raises TypeError
sanitize_dividend_yield(raw) ==
    IF raw.t = "none" THEN Ret(PyNone)
    ELSE IF ~IsNum(raw) THEN Raise("TypeError")
    ELSE IF raw.n < 0 THEN Ret(PyNone)
    ELSE IF raw.n > Whole(1000) THEN Ret(PyNone)
    ELSE IF raw.n > Whole(50) THEN Ret(PyNone)
    ELSE IF raw.n > Whole(1)
         THEN LET normalized == raw.n \div 100
              IN  IF normalized * 4 <= Whole(1) THEN Ret(Num(normalized))
                                                ELSE Ret(PyNone)
    ELSE Ret(raw)

(***************************************************************************)
(* Conditions of Python `if` statements over untrusted fields.  A          *)
(* condition is "T", "F", or the exception its evaluation raises.          *)
(***************************************************************************)
\* the attribute read o.f of an object o = [t, f]: only a record object has
\* attributes, and one of its attributes may be missing too
Attr(o, f) ==
    IF o.t = "rec" THEN o.f[f] ELSE Missing

\* a or b, evaluated left to right
Or2(a, b) == IF a = "F" THEN b ELSE a

Truth(b) == IF b THEN "T" ELSE "F"

\* x is None
IsNoneC(x) ==
    IF x.t = "missing" THEN "AttributeError" ELSE Truth(x.t = "none")

\* x < k, x > k, x <= k for a number k (fixed point)
LtC(x, k) ==
    IF x.t = "missing" THEN "AttributeError"
    ELSE IF ~IsNum(x) THEN "TypeError" ELSE Truth(x.n < k)

GtC(x, k) ==
    IF x.t = "missing" THEN "AttributeError"
    ELSE IF ~IsNum(x) THEN "TypeError" ELSE Truth(x.n > k)

LeC(x, k) ==
    IF x.t = "missing" THEN "AttributeError"
    ELSE IF ~IsNum(x) THEN "TypeError" ELSE Truth(x.n <= k)

\* abs(x) > k
AbsGtC(x, k) ==
    IF x.t = "missing" THEN "AttributeError"
    ELSE IF ~IsNum(x) THEN "TypeError" ELSE Truth(Abs(x.n) > k)

\* x >= y for two fields
GeFieldsC(x, y) ==
    IF x.t = "missing" \/ y.t = "missing" THEN "AttributeError"
    ELSE IF ~IsNum(x) \/ ~IsNum(y) THEN "TypeError" ELSE Truth(x.n >= y.n)

\* a validator body: the first condition that is not false decides; a true
\* condition returns False, AttributeError is caught and returns False, any
\* other exception propagates; with every condition false the verdict is True
Verdict(c) ==
    IF c = "F" THEN Ret(TRUE)
    ELSE IF c = "T" \/ c = "AttributeError" THEN Ret(FALSE)
    ELSE Raise(c)

(***************************************************************************)
(* is_price_analysis_reliable                                              *)
(***************************************************************************)
MaxAbsReturn == 400

MaxVolatility == 200

\* x > y for two fields
GtFieldsC(x, y) ==
    IF x.t = "missing" \/ y.t = "missing" THEN "AttributeError"
    ELSE IF ~IsNum(x) \/ ~IsNum(y) THEN "TypeError" ELSE Truth(x.n > y.n)

\* the validator with the price-range test min_price > max_price, which
\* lets an empty range min_price = max_price through
is_price_analysis_reliable_empty_range(pa) ==
    LET trp == Attr(pa, "total_return_percent")
        vol == Attr(pa, "volatility")
        mn  == Attr(pa, "min_price")
        mx  == Attr(pa, "max_price")
        av  == Attr(pa, "average_volume")
    IN  Verdict(
          Or2(Truth(pa.t = "none"),
          Or2(Or2(IsNoneC(trp), AbsGtC(trp, Whole(MaxAbsReturn))),
          Or2(Or2(IsNoneC(vol), Or2(LtC(vol, 0), GtC(vol, Whole(MaxVolatility)))),
          Or2(Or2(IsNoneC(mn), Or2(IsNoneC(mx), Or2(LeC(mn, 0), LeC(mx, 0)))),
          Or2(GtFieldsC(mn, mx),
              Or2(IsNoneC(av), LeC(av, 0))))))))

is_price_analysis_reliable(pa) ==
    LET trp == Attr(pa, "total_return_percent")
        vol == Attr(pa, "volatility")
        mn  == Attr(pa, "min_price")
        mx  == Attr(pa, "max_price")
        av  == Attr(pa, "average_volume")
    IN  Verdict(
          Or2(Truth(pa.t = "none"),
          Or2(Or2(IsNoneC(trp), AbsGtC(trp, Whole(MaxAbsReturn))),
          Or2(Or2(IsNoneC(vol), Or2(LtC(vol, 0), GtC(vol, Whole(MaxVolatility)))),
          Or2(Or2(IsNoneC(mn), Or2(IsNoneC(mx), Or2(LeC(mn, 0), LeC(mx, 0)))),
          Or2(GeFieldsC(mn, mx),
              Or2(IsNoneC(av), LeC(av, 0))))))))

(***************************************************************************)
(* is_valid_volatility_metrics                                             *)
(***************************************************************************)
MaxHistoricalVolatility == 250

MinDrawdown == -100

\* getattr(o, f, None)
GetAttrNone(o, f) ==
    LET x == Attr(o, f) IN IF x.t = "missing" THEN PyNone ELSE x

\* x >= k
GeC(x, k) ==
    IF x.t = "missing" THEN "AttributeError"
    ELSE IF ~IsNum(x) THEN "TypeError" ELSE Truth(x.n >= k)

\* the validator rejecting a drawdown of exactly zero
is_valid_volatility_metrics_zero_drawdown(metrics) ==
    LET hv == GetAttrNone(metrics, "historical_volatility")
        md == GetAttrNone(metrics, "max_drawdown")
    IN  Verdict(
          Or2(Truth(metrics.t = "none"),
          Or2(Or2(IsNoneC(hv),
                  Or2(LtC(hv, 0), GtC(hv, Whole(MaxHistoricalVolatility)))),
              Or2(IsNoneC(md),
                  Or2(GeC(md, 0), LtC(md, Whole(MinDrawdown)))))))

is_valid_volatility_metrics(metrics) ==
    LET hv == GetAttrNone(metrics, "historical_volatility")
        md == GetAttrNone(metrics, "max_drawdown")
    IN  Verdict(
          Or2(Truth(metrics.t = "none"),
          Or2(Or2(IsNoneC(hv),
                  Or2(LtC(hv, 0), GtC(hv, Whole(MaxHistoricalVolatility)))),
              Or2(IsNoneC(md),
                  Or2(GtC(md, 0), LtC(md, Whole(MinDrawdown)))))))

(***************************************************************************)
(* Text: rendering numbers as Python's format specs do, and float(str).    *)
(***************************************************************************)
NA == <<"N", "/", "A">>

DigitChars == <<"0", "1", "2", "3", "4", "5", "6", "7", "8", "9">>

IsDigit(c) == \E i \in 1 .. 10 : DigitChars[i] = c

DigitValue(c) == (CHOOSE i \in 1 .. 10 : DigitChars[i] = c) - 1

\* the decimal digits of n >= 0
RECURSIVE Digits(_)
Digits(n) ==
    IF n < 10 THEN <<DigitChars[n + 1]>>
    ELSE Digits(n \div 10) \o <<DigitChars[(n % 10) + 1]>>

\* the decimal digits of n >= 0, zero-padded on the left to width w
RECURSIVE PadDigits(_, _)
PadDigits(n, w) ==
    IF w = 0 THEN <<>>
    ELSE PadDigits(n \div 10, w - 1) \o <<DigitChars[(n % 10) + 1]>>

\* the "," format option: digits of n >= 0 in groups of three
RECURSIVE Grouped(_)
Grouped(n) ==
    IF n < 1000 THEN Digits(n)
    ELSE Grouped(n \div 1000) \o <<",">> \o PadDigits(n % 1000, 3)

RECURSIVE Pow10(_)
Pow10(k) == IF k = 0 THEN 1 ELSE 10 * Pow10(k - 1)

\* n >= 0 divided by q, rounded to the nearest integer, ties to even
RoundHalfEven(n, q) ==
    LET lo == n \div q
        r2 == 2 * (n % q)
    IN  IF r2 < q THEN lo
        ELSE IF r2 > q THEN lo + 1
        ELSE IF lo % 2 = 0 THEN lo ELSE lo + 1

\* f"{value:.{decimals}f}" with grouping when `commas`: the sign, the
\* integer part, and `decimals` fraction digits (decimals <= 4, the
\* precision of the fixed-point values)
FormatFixed(v, decimals, commas) ==
    LET unit == Pow10(decimals)
        m    == RoundHalfEven(Abs(v), Scale \div unit)
        ip   == m \div unit
        body == (IF commas THEN Grouped(ip) ELSE Digits(ip))
                  \o (IF decimals = 0 THEN <<>>
                      ELSE <<".">> \o PadDigits(m % unit, decimals))
    IN  IF v < 0 THEN <<"-">> \o body ELSE body

\* round(x) for a float x: nearest integer, ties to even
PyRound(v) ==
    IF v < 0 THEN -RoundHalfEven(-v, Scale) ELSE RoundHalfEven(v, Scale)

\* f"{n:,}" for an int n
FormatIntCommas(n) ==
    IF n < 0 THEN <<"-">> \o Grouped(-n) ELSE Grouped(n)

RECURSIVE AllDigits(_)
AllDigits(s) ==
    s = <<>> \/ (IsDigit(Head(s)) /\ AllDigits(Tail(s)))

\* the number written by a digit string
RECURSIVE UIntOf(_)
UIntOf(s) ==
    IF s = <<>> THEN 0
    ELSE 10 * UIntOf(SubSeq(s, 1, Len(s) - 1)) + DigitValue(s[Len(s)])

\* position of the first "." in s, or 0
DotAt(s) ==
    IF \E i \in 1 .. Len(s) : s[i] = "."
    THEN CHOOSE i \in 1 .. Len(s) :
           s[i] = "." /\ \A j \in 1 .. (i - 1) : s[j] # "."
    ELSE 0

\* float(s) for an unsigned decimal literal: digits, optionally a point and
\* up to four more digits; anything else is not a number here
IsDecimalLiteral(s) ==
    LET d == DotAt(s)
    IN  IF d = 0 THEN s # <<>> /\ AllDigits(s)
        ELSE LET ip == SubSeq(s, 1, d - 1)
                 fp == SubSeq(s, d + 1, Len(s))
             IN  /\ AllDigits(ip) /\ AllDigits(fp)
                 /\ Len(ip) + Len(fp) > 0 /\ Len(fp) <= 4

DecimalLiteralValue(s) ==
    LET d == DotAt(s)
    IN  IF d = 0 THEN Whole(UIntOf(s))
        ELSE LET ip == SubSeq(s, 1, d - 1)
                 fp == SubSeq(s, d + 1, Len(s))
             IN  Whole(UIntOf(ip)) + UIntOf(fp) * Pow10(4 - Len(fp))

\* float(s) for a str s: leading "-" and a decimal literal, else ValueError
FloatOfStr(s) ==
    IF s # <<>> /\ Head(s) = "-" /\ IsDecimalLiteral(Tail(s))
    THEN Ret(Num(-DecimalLiteralValue(Tail(s))))
    ELSE IF IsDecimalLiteral(s) THEN Ret(Num(DecimalLiteralValue(s)))
    ELSE Raise("ValueError")

\* float(raw): numbers convert, strings are parsed, None and other objects
\* raise TypeError
PyFloat(raw) ==
    IF IsNum(raw) THEN Ret(raw)
    ELSE IF raw.t = "str" THEN FloatOfStr(raw.s)
    ELSE Raise("TypeError")

(***************************************************************************)
(* The four formatters.                                                    *)
(***************************************************************************)
format_percent(raw, decimals, assume_fractional) ==
    IF raw.t = "none" THEN Ret(Str(NA))
    ELSE LET f == PyFloat(raw)
         IN  IF Raised(f) THEN Ret(Str(NA))
             ELSE LET value == IF assume_fractional \/ Abs(f.val.n) <= Whole(1)
                               THEN f.val.n * 100 ELSE f.val.n
                  IN  Ret(Str(FormatFixed(value, decimals, FALSE) \o <<"%">>))

\* the format spec ".2f" applied to a str raises ValueError, applied to an
\* object without float formatting raises TypeError
format_ratio(raw, decimals) ==
    IF raw.t = "none" THEN Ret(Str(NA))
    ELSE IF raw.t = "str" THEN Raise("ValueError")
    ELSE IF ~IsNum(raw) THEN Raise("TypeError")
    ELSE Ret(Str(FormatFixed(raw.n, decimals, FALSE)))

format_currency(raw) ==
    IF raw.t = "none" THEN Ret(Str(NA))
    ELSE LET f == PyFloat(raw)
         IN  IF Raised(f) THEN Ret(Str(NA))
             ELSE Ret(Str(<<"$">> \o FormatFixed(f.val.n, 2, TRUE)))

format_integer(raw) ==
    IF raw.t = "none" THEN Ret(Str(NA))
    ELSE LET f == PyFloat(raw)
         IN  IF Raised(f) THEN Ret(Str(NA))
             ELSE Ret(Str(FormatIntCommas(PyRound(f.val.n))))

(***************************************************************************)
(* Dates.  A date is a record [y, m, d]; NoDate stands for Python's None   *)
(* where a date was expected.                                              *)
(***************************************************************************)
NoDate == [y |-> 0, m |-> 0, d |-> 0]

Date(y, m, d) == [y |-> y, m |-> m, d |-> d]

IsLeap(y) == y % 4 = 0 /\ (y % 100 # 0 \/ y % 400 = 0)

DaysInMonth(y, m) ==
    IF m = 2 THEN (IF IsLeap(y) THEN 29 ELSE 28)
    ELSE IF m \in {4, 6, 9, 11} THEN 30 ELSE 31

\* what datetime's constructor accepts (MINYEAR is 1)
ValidDate(y, m, d) ==
    /\ y \in 1 .. 9999
    /\ m \in 1 .. 12
    /\ d >= 1 /\ d <= DaysInMonth(y, m)

RECURSIVE DaysBeforeMonth(_, _)
DaysBeforeMonth(y, m) ==
    IF m = 1 THEN 0 ELSE DaysBeforeMonth(y, m - 1) + DaysInMonth(y, m - 1)

\* date.toordinal(): days since 0001-01-01, plus one
Ordinal(dt) ==
    LET p == dt.y - 1
    IN  p * 365 + (p \div 4) - (p \div 100) + (p \div 400)
          + DaysBeforeMonth(dt.y, dt.m) + dt.d

\* (a - b).days for two dates
DaysBetween(a, b) == Ordinal(a) - Ordinal(b)

(***************************************************************************)
(* Timestamp strings.  A string is cut into tokens: a maximal run of       *)
(* digits is one number token (value n, width w), any other character is   *)
(* a token of its own.                                                     *)
(***************************************************************************)
Whitespace == {" ", "\t"}

NumTok(n, w) == [k |-> "num", n |-> n, w |-> w, c |-> "0"]

ChrTok(c) == [k |-> "chr", n |-> 0, w |-> 1, c |-> c]

\* str.strip()
RECURSIVE LStrip(_)
LStrip(s) ==
    IF s # <<>> /\ Head(s) \in Whitespace THEN LStrip(Tail(s)) ELSE s

RECURSIVE RStrip(_)
RStrip(s) ==
    IF s # <<>> /\ s[Len(s)] \in Whitespace
    THEN RStrip(SubSeq(s, 1, Len(s) - 1)) ELSE s

Strip(s) == RStrip(LStrip(s))

RECURSIVE TokensFrom(_, _)
TokensFrom(s, acc) ==
    IF s = <<>> THEN acc
    ELSE LET c == Head(s)
             n == Len(acc)
         IN  IF IsDigit(c)
             THEN IF n > 0 /\ acc[n].k = "num"
                  THEN TokensFrom(Tail(s),
                         [acc EXCEPT ![n] =
                            NumTok(10 * acc[n].n + DigitValue(c), acc[n].w + 1)])
                  ELSE TokensFrom(Tail(s), Append(acc, NumTok(DigitValue(c), 1)))
             ELSE TokensFrom(Tail(s), Append(acc, ChrTok(c)))

Tokens(s) == TokensFrom(s, <<>>)

\* runs of whitespace tokens collapsed to a single " " token
RECURSIVE SqueezeWs(_)
SqueezeWs(ts) ==
    IF ts = <<>> THEN <<>>
    ELSE IF Head(ts).k = "chr" /\ Head(ts).c \in Whitespace
         THEN IF Len(ts) > 1 /\ ts[2].k = "chr" /\ ts[2].c \in Whitespace
              THEN SqueezeWs(Tail(ts))
              ELSE <<ChrTok(" ")>> \o SqueezeWs(Tail(ts))
         ELSE <<Head(ts)>> \o SqueezeWs(Tail(ts))

IsChr(tok, c) == tok.k = "chr" /\ tok.c = c

\* a strptime field of one or two digits with value in lo .. hi
Field12(tok, lo, hi) ==
    tok.k = "num" /\ tok.w \in {1, 2} /\ tok.n >= lo /\ tok.n <= hi

\* an ISO field of exactly two digits with value in lo .. hi
Field2(tok, lo, hi) ==
    tok.k = "num" /\ tok.w = 2 /\ tok.n >= lo /\ tok.n <= hi

\* "%Y-%m-%d" at the head of ts: a four-digit year, month and day of one
\* or two digits, forming a valid date
StrpDateHead(ts) ==
    /\ Len(ts) >= 5
    /\ ts[1].k = "num" /\ ts[1].w = 4
    /\ IsChr(ts[2], "-") /\ Field12(ts[3], 1, 12)
    /\ IsChr(ts[4], "-") /\ Field12(ts[5], 1, 31)
    /\ ValidDate(ts[1].n, ts[3].n, ts[5].n)

\* "%H:%M:%S" at positions i .. i+4 of ts
StrpTimeAt(ts, i) ==
    /\ Len(ts) >= i + 4
    /\ Field12(ts[i], 0, 23)
    /\ IsChr(ts[i + 1], ":") /\ Field12(ts[i + 2], 0, 59)
    /\ IsChr(ts[i + 3], ":") /\ Field12(ts[i + 4], 0, 59)

\* datetime.strptime(value, fmt) succeeds, for the four formats in use
MatchesDate(ts) == StrpDateHead(ts) /\ Len(ts) = 5

MatchesDateTimeTZ(ts) ==
    /\ StrpDateHead(ts) /\ Len(ts) = 12
    /\ IsChr(ts[6], "T") /\ StrpTimeAt(ts, 7) /\ IsChr(ts[12], "Z")

MatchesDateTimeT(ts) ==
    /\ StrpDateHead(ts) /\ Len(ts) = 11
    /\ IsChr(ts[6], "T") /\ StrpTimeAt(ts, 7)

MatchesDateTimeSpace(ts) ==
    LET sq == SqueezeWs(ts)
    IN  /\ StrpDateHead(sq) /\ Len(sq) = 11
        /\ IsChr(sq[6], " ") /\ StrpTimeAt(sq, 7)

\* value.replace("Z", "+00:00") on tokens
RECURSIVE ReplaceZ(_)
ReplaceZ(ts) ==
    IF ts = <<>> THEN <<>>
    ELSE IF IsChr(Head(ts), "Z")
         THEN <<ChrTok("+"), NumTok(0, 2), ChrTok(":"), NumTok(0, 2)>>
                \o ReplaceZ(Tail(ts))
         ELSE <<Head(ts)>> \o ReplaceZ(Tail(ts))

\* the UTC offset "+HH:MM" or "-HH:MM" occupying exactly ts
IsoOffset(ts) ==
    /\ Len(ts) = 4
    /\ (IsChr(ts[1], "+") \/ IsChr(ts[1], "-"))
    /\ Field2(ts[2], 0, 23) /\ IsChr(ts[3], ":") /\ Field2(ts[4], 0, 59)

\* the time "HH[:MM[:SS[.fff|.ffffff]]]" with an optional offset,
\* occupying exactly ts
IsoTime(ts) ==
    \E n \in {1, 3, 5, 7} :
        /\ Len(ts) >= n
        /\ Field2(ts[1], 0, 23)
        /\ n >= 3 => IsChr(ts[2], ":") /\ Field2(ts[3], 0, 59)
        /\ n >= 5 => IsChr(ts[4], ":") /\ Field2(ts[5], 0, 59)
        /\ n >= 7 => IsChr(ts[6], ".") /\ ts[7].k = "num" /\ ts[7].w \in {3, 6}
        /\ (Len(ts) = n \/ IsoOffset(SubSeq(ts, n + 1, Len(ts))))

\* datetime.fromisoformat succeeds: "YYYY-MM-DD", optionally one separator
\* character and a time
MatchesIso(ts) ==
    /\ Len(ts) >= 5
    /\ ts[1].k = "num" /\ ts[1].w = 4
    /\ IsChr(ts[2], "-") /\ Field2(ts[3], 1, 12)
    /\ IsChr(ts[4], "-") /\ Field2(ts[5], 1, 31)
    /\ ValidDate(ts[1].n, ts[3].n, ts[5].n)
    /\ (Len(ts) = 5
          \/ (Len(ts) >= 7 /\ ts[6].k = "chr" /\ IsoTime(SubSeq(ts, 7, Len(ts)))))

DateOfTokens(ts) == Date(ts[1].n, ts[3].n, ts[5].n)

(***************************************************************************)
(* The recency filters and their date parsers.                             *)
(***************************************************************************)
\* `not value`, the falsy Python values: None, "", 0
Falsy(value) ==
    \/ value.t = "none"
    \/ (value.t = "str" /\ value.s = <<>>)
    \/ (value.t = "num" /\ value.n = 0)

\* filter_recent_articles._parse_date: the date, NoDate for None, or the
\* exception (value.strip() on a value that is not a str)
_parse_date(value) ==
    IF Falsy(value) THEN Ret(NoDate)
    ELSE IF value.t # "str" THEN Raise("AttributeError")
    ELSE LET ts == Tokens(Strip(value.s))
         IN  IF MatchesDate(ts) THEN Ret(DateOfTokens(ts))
             ELSE IF MatchesDateTimeTZ(ts) THEN Ret(DateOfTokens(ts))
             ELSE IF MatchesDateTimeT(ts) THEN Ret(DateOfTokens(ts))
             ELSE IF MatchesDateTimeSpace(ts) THEN Ret(DateOfTokens(ts))
             ELSE IF MatchesIso(ReplaceZ(ts)) THEN Ret(DateOfTokens(ts))
             ELSE Ret(NoDate)

\* filter_recent_transactions._parse
_parse(value) ==
    IF Falsy(value) THEN Ret(NoDate)
    ELSE IF value.t # "str" THEN Raise("AttributeError")
    ELSE LET ts == Tokens(Strip(value.s))
         IN  IF MatchesDate(ts) THEN Ret(DateOfTokens(ts))
             ELSE IF MatchesDateTimeTZ(ts) THEN Ret(DateOfTokens(ts))
             ELSE IF MatchesDateTimeSpace(ts) THEN Ret(DateOfTokens(ts))
             ELSE IF MatchesIso(ReplaceZ(ts)) THEN Ret(DateOfTokens(ts))
             ELSE Ret(NoDate)

\* getattr(o, f, "")
GetAttrEmpty(o, f) ==
    LET x == Attr(o, f) IN IF x.t = "missing" THEN Str(<<>>) ELSE x

\* `seq or []` for a list argument that may be None
OrEmpty(list) == IF list.t = "list" THEN list.items ELSE <<>>

\* the loop with the window taken as exclusive: an article exactly
\* max_age_days old is dropped
RECURSIVE ArticlesLoopExclusive(_, _, _, _)
ArticlesLoopExclusive(articles, as_of, max_age_days, recent) ==
    IF articles = <<>> THEN Ret(recent)
    ELSE LET article == Head(articles)
             published_on ==
                 _parse_date(GetAttrEmpty(article, "published_date"))
         IN  IF Raised(published_on) THEN published_on
             ELSE IF published_on.val = NoDate
                  THEN ArticlesLoopExclusive(Tail(articles), as_of,
                                             max_age_days, recent)
             ELSE IF DaysBetween(as_of, published_on.val) >= max_age_days
                  THEN ArticlesLoopExclusive(Tail(articles), as_of,
                                             max_age_days, recent)
             ELSE ArticlesLoopExclusive(Tail(articles), as_of, max_age_days,
                                        Append(recent, article))

\* the loop of filter_recent_articles over the remaining articles
RECURSIVE ArticlesLoop(_, _, _, _)
ArticlesLoop(articles, as_of, max_age_days, recent) ==
    IF articles = <<>> THEN Ret(recent)
    ELSE LET article == Head(articles)
             published_on ==
                 _parse_date(GetAttrEmpty(article, "published_date"))
         IN  IF Raised(published_on) THEN published_on
             ELSE IF published_on.val = NoDate
                  THEN ArticlesLoop(Tail(articles), as_of, max_age_days, recent)
             ELSE IF DaysBetween(as_of, published_on.val) > max_age_days
                  THEN ArticlesLoop(Tail(articles), as_of, max_age_days, recent)
             ELSE ArticlesLoop(Tail(articles), as_of, max_age_days,
                               Append(recent, article))

filter_recent_articles(articles, as_of, max_age_days) ==
    ArticlesLoop(OrEmpty(articles), as_of, max_age_days, <<>>)

UpperChars ==
    <<"A", "B", "C", "D", "E", "F", "G", "H", "I", "J", "K", "L", "M",
      "N", "O", "P", "Q", "R", "S", "T", "U", "V", "W", "X", "Y", "Z">>

LowerChars ==
    <<"a", "b", "c", "d", "e", "f", "g", "h", "i", "j", "k", "l", "m",
      "n", "o", "p", "q", "r", "s", "t", "u", "v", "w", "x", "y", "z">>

LowerChar(c) ==
    IF \E i \in 1 .. 26 : UpperChars[i] = c
    THEN LowerChars[CHOOSE i \in 1 .. 26 : UpperChars[i] = c]
    ELSE c

\* str.lower()
Lower(x) == [i \in 1 .. Len(x) |-> LowerChar(x[i])]

PLACEHOLDER_NAMES ==
    { <<"j", "o", "h", "n", " ", "d", "o", "e">>,
      <<"j", "a", "n", "e", " ", "s", "m", "i", "t", "h">>,
      <<"a", "l", "i", "c", "e", " ", "j", "o", "h", "n", "s", "o", "n">> }

\* the loop comparing the lower-cased name without trimming it
RECURSIVE TransactionsLoopUntrimmed(_, _)
TransactionsLoopUntrimmed(transactions, valid) ==
    IF transactions = <<>> THEN Ret(valid)
    ELSE LET txn == Head(transactions)
             raw_name == GetAttrEmpty(txn, "name")
         IN  IF raw_name.t # "str" THEN Raise("AttributeError")
             ELSE LET name == Lower(raw_name.s)
                  IN  IF name = <<>> \/ name \in PLACEHOLDER_NAMES
                      THEN TransactionsLoopUntrimmed(Tail(transactions), valid)
                      ELSE TransactionsLoopUntrimmed(Tail(transactions),
                                                     Append(valid, txn))

\* the loop of filter_valid_transactions over the remaining transactions
RECURSIVE TransactionsLoop(_, _)
TransactionsLoop(transactions, valid) ==
    IF transactions = <<>> THEN Ret(valid)
    ELSE LET txn == Head(transactions)
             raw_name == GetAttrEmpty(txn, "name")
         IN  IF raw_name.t # "str" THEN Raise("AttributeError")
             ELSE LET name == Lower(Strip(raw_name.s))
                  IN  IF name = <<>> \/ name \in PLACEHOLDER_NAMES
                      THEN TransactionsLoop(Tail(transactions), valid)
                      ELSE TransactionsLoop(Tail(transactions),
                                            Append(valid, txn))

filter_valid_transactions(transactions) ==
    TransactionsLoop(OrEmpty(transactions), <<>>)

\* the loop of filter_recent_transactions, removing the dropped transaction
\* from the list it iterates: the transaction after a dropped one is kept
\* unexamined
RECURSIVE RecentTransactionsLoopRemoving(_, _, _, _)
RecentTransactionsLoopRemoving(txns, as_of, max_age_days, recent) ==
    IF txns = <<>> THEN Ret(recent)
    ELSE LET txn == Head(txns)
             txn_date == _parse(GetAttrEmpty(txn, "transaction_date"))
             Skip == IF Tail(txns) = <<>> THEN Ret(recent)
                     ELSE RecentTransactionsLoopRemoving(
                              Tail(Tail(txns)), as_of, max_age_days,
                              Append(recent, Head(Tail(txns))))
         IN  IF Raised(txn_date) THEN txn_date
             ELSE IF txn_date.val = NoDate THEN Skip
             ELSE IF DaysBetween(as_of, txn_date.val) > max_age_days
                  THEN Skip
             ELSE RecentTransactionsLoopRemoving(Tail(txns), as_of,
                                                 max_age_days,
                                                 Append(recent, txn))

\* the loop of filter_recent_transactions over the valid transactions
RECURSIVE RecentTransactionsLoop(_, _, _, _)
RecentTransactionsLoop(txns, as_of, max_age_days, recent) ==
    IF txns = <<>> THEN Ret(recent)
    ELSE LET txn == Head(txns)
             txn_date == _parse(GetAttrEmpty(txn, "transaction_date"))
         IN  IF Raised(txn_date) THEN txn_date
             ELSE IF txn_date.val = NoDate
                  THEN RecentTransactionsLoop(Tail(txns), as_of, max_age_days,
                                              recent)
             ELSE IF DaysBetween(as_of, txn_date.val) > max_age_days
                  THEN RecentTransactionsLoop(Tail(txns), as_of, max_age_days,
                                              recent)
             ELSE RecentTransactionsLoop(Tail(txns), as_of, max_age_days,
                                         Append(recent, txn))

filter_recent_transactions(transactions, as_of, max_age_days) ==
    LET valid == filter_valid_transactions(transactions)
    IN  IF Raised(valid) THEN valid
        ELSE RecentTransactionsLoop(valid.val, as_of, max_age_days, <<>>)

(***************************************************************************)
(* ReportGenerator._generate_news_section.  The section is modelled by the *)
(* articles it renders; its sentiment, summary and insight lines are       *)
(* modelled by the attribute reads that can raise.                         *)
(***************************************************************************)
\* the default max_age_days of filter_recent_articles
DefaultArticleMaxAge == 120

\* recent_articles[:3]
MaxRenderedArticles == 3

\* len(snippet) > 240
SnippetLimit == 240

\* snippet[:237]
SnippetKept == 237

\* "..."
Ellipsis ==
    <<".", ".", ".">>

\* getattr(o, f, [])
GetAttrList(o, f) ==
    LET x == Attr(o, f)
    IN  IF x.t = "missing" THEN [t |-> "list", items |-> <<>>] ELSE x

\* seq[:n]
FirstN(seq, n) ==
    SubSeq(seq, 1, IF Len(seq) < n THEN Len(seq) ELSE n)

\* (article.content or "").strip(), cut to 237 characters and "..." when
\* longer than 240
Snippet(content) ==
    IF content.t = "missing" THEN Raise("AttributeError")
    ELSE IF Falsy(content) THEN Ret(<<>>)
    ELSE IF content.t # "str" THEN Raise("AttributeError")
    ELSE LET snippet == Strip(content.s)
         IN  IF Len(snippet) > SnippetLimit
             THEN Ret(RStrip(SubSeq(snippet, 1, SnippetKept)) \o Ellipsis)
             ELSE Ret(snippet)

\* the lines rendered for one article
RenderedArticle(article) ==
    LET snippet == Snippet(Attr(article, "content"))
    IN  IF Raised(snippet) THEN snippet
        ELSE IF Attr(article, "title").t = "missing"
             THEN Raise("AttributeError")
        ELSE IF Attr(article, "source").t = "missing"
             THEN Raise("AttributeError")
        ELSE IF Attr(article, "published_date").t = "missing"
             THEN Raise("AttributeError")
        ELSE Ret([title |-> Attr(article, "title"),
                  source |-> Attr(article, "source"),
                  date |-> Attr(article, "published_date"),
                  snippet |-> snippet.val])

\* the loop of _generate_news_section over recent_articles[:3]
RECURSIVE RenderLoop(_, _)
RenderLoop(articles, rendered) ==
    IF articles = <<>> THEN Ret(rendered)
    ELSE LET entry == RenderedArticle(Head(articles))
         IN  IF Raised(entry) THEN entry
             ELSE RenderLoop(Tail(articles), Append(rendered, entry.val))

\* the sentiment block: skipped for a missing or None sentiment_analysis,
\* else it reads four attributes
SentimentBlock(report) ==
    LET sentiment_analysis == GetAttrNone(report, "sentiment_analysis")
    IN  IF sentiment_analysis.t # "rec" THEN Ret(<<>>)
        ELSE IF \E f \in {"sentiment_trend", "key_themes",
                          "overall_sentiment", "market_impact_assessment"} :
                    Attr(sentiment_analysis, f).t = "missing"
             THEN Raise("AttributeError")
        ELSE Ret(<<>>)

_generate_news_section(report_date, report) ==
    LET recent_articles ==
            filter_recent_articles(GetAttrList(report, "articles"),
                                   report_date, DefaultArticleMaxAge)
    IN  IF Raised(recent_articles) THEN recent_articles
        ELSE LET rendered ==
                     RenderLoop(FirstN(recent_articles.val,
                                       MaxRenderedArticles), <<>>)
             IN  IF Raised(rendered) THEN rendered
                 ELSE IF Raised(SentimentBlock(report))
                      THEN SentimentBlock(report)
                 ELSE IF Attr(report, "key_insights").t = "missing"
                      THEN Raise("AttributeError")
                 ELSE rendered

(***************************************************************************)
(* ReportGenerator._generate_historical_section: the price-analysis block. *)
(***************************************************************************)
IsLetter(c) ==
    \E i \in 1 .. 26 : UpperChars[i] = c \/ LowerChars[i] = c

UpperChar(c) ==
    IF \E i \in 1 .. 26 : LowerChars[i] = c
    THEN UpperChars[CHOOSE i \in 1 .. 26 : LowerChars[i] = c]
    ELSE c

\* str.title(): a letter that follows a non-letter is upper-cased, every
\* other letter is lower-cased
Title(x) ==
    [i \in 1 .. Len(x) |->
        IF i = 1 \/ ~IsLetter(x[i - 1]) THEN UpperChar(x[i])
                                         ELSE LowerChar(x[i])]

\* the values written under "### Price Analysis" for the report's
\* price_analysis attribute pa (None when the report has none): the five
\* rendered lines when the record passes the validator, no line otherwise
PriceAnalysisBlock(pa) ==
    IF pa.t = "none" THEN Ret(<<>>)
    ELSE LET ok == is_price_analysis_reliable(pa)
         IN  IF Raised(ok) THEN ok
             ELSE IF ~ok.val THEN Ret(<<>>)
             ELSE LET trend == Attr(pa, "trend_direction")
                  IN  IF trend.t # "str" THEN Raise("AttributeError")
                      ELSE Ret(<<
                        format_percent(Attr(pa, "total_return_percent"),
                                       2, FALSE).val.s,
                        format_percent(Attr(pa, "volatility"), 2, FALSE).val.s,
                        format_currency(Attr(pa, "min_price")).val.s,
                        format_currency(Attr(pa, "max_price")).val.s,
                        format_integer(Attr(pa, "average_volume")).val.s,
                        Title(trend.s) >>)

(***************************************************************************)
(* Strings used as inputs.                                                 *)
(***************************************************************************)
\* "abc"
TextAbc ==
    <<"a", "b", "c">>

\* "upward trend"
TextUpwardTrend ==
    <<"u", "p", "w", "a", "r", "d", " ", "t", "r", "e", "n", "d">>

\* "42"
Text42 ==
    <<"4", "2">>

\* "12.5"
Text12_5 ==
    <<"1", "2", ".", "5">>

\* "-3.5"
TextMinus3_5 ==
    <<"-", "3", ".", "5">>

\* "2024-05-01"
Ts20240501 ==
    <<"2", "0", "2", "4", "-", "0", "5", "-", "0", "1">>

\* "2023-01-01"
Ts20230101 ==
    <<"2", "0", "2", "3", "-", "0", "1", "-", "0", "1">>

\* "\t2024-02-02 "
Ts20240202Padded ==
    <<"\t", "2", "0", "2", "4", "-", "0", "2", "-", "0", "2", " ">>

\* "2024-02-02"
Ts20240202 ==
    <<"2", "0", "2", "4", "-", "0", "2", "-", "0", "2">>

\* "2024-02-01"
Ts20240201 ==
    <<"2", "0", "2", "4", "-", "0", "2", "-", "0", "1">>

\* "2024-5-1"
TsShortFields ==
    <<"2", "0", "2", "4", "-", "5", "-", "1">>

\* "2024-05-01T10:00:00Z"
TsZulu ==
    <<"2", "0", "2", "4", "-", "0", "5", "-", "0", "1", "T", "1", "0", ":",
      "0", "0", ":", "0", "0", "Z">>

\* "2024-05-01T10:00:00"
TsNaive ==
    <<"2", "0", "2", "4", "-", "0", "5", "-", "0", "1", "T", "1", "0", ":",
      "0", "0", ":", "0", "0">>

\* "2024-05-01 10:00:00"
TsSpace ==
    <<"2", "0", "2", "4", "-", "0", "5", "-", "0", "1", " ", "1", "0", ":",
      "0", "0", ":", "0", "0">>

\* "2024-05-01T10:00:00+00:00"
TsOffset ==
    <<"2", "0", "2", "4", "-", "0", "5", "-", "0", "1", "T", "1", "0", ":",
      "0", "0", ":", "0", "0", "+", "0", "0", ":", "0", "0">>

\* "2024-5-1T1:2:3"
TsShortTime ==
    <<"2", "0", "2", "4", "-", "5", "-", "1", "T", "1", ":", "2", ":", "3">>

\* "May 1, 2024"
TsProse ==
    <<"M", "a", "y", " ", "1", ",", " ", "2", "0", "2", "4">>

\* "   "
TextBlank ==
    <<" ", " ", " ">>

\* "2024-02-30"
Ts20240230 ==
    <<"2", "0", "2", "4", "-", "0", "2", "-", "3", "0">>

\* "2024-06-05"
Ts20240605 ==
    <<"2", "0", "2", "4", "-", "0", "6", "-", "0", "5">>

\* "2024-06-01"
Ts20240601 ==
    <<"2", "0", "2", "4", "-", "0", "6", "-", "0", "1">>

\* "John Doe"
NameJohnDoe ==
    <<"J", "o", "h", "n", " ", "D", "o", "e">>

\* " john doe "
NameJohnDoePadded ==
    <<" ", "j", "o", "h", "n", " ", "d", "o", "e", " ">>

\* "JANE SMITH"
NameJaneSmithUpper ==
    <<"J", "A", "N", "E", " ", "S", "M", "I", "T", "H">>

\* "Alice Johnson\t"
NameAliceJohnsonTab ==
    <<"A", "l", "i", "c", "e", " ", "J", "o", "h", "n", "s", "o", "n", "\t">>

\* "Maria Chen"
NameMariaChen ==
    <<"M", "a", "r", "i", "a", " ", "C", "h", "e", "n">>

\* "john  doe"
NameJohnTwoSpaces ==
    <<"j", "o", "h", "n", " ", " ", "d", "o", "e">>

\* "johndoe"
NameJohndoe ==
    <<"j", "o", "h", "n", "d", "o", "e">>

\* "John Doe Jr"
NameJohnDoeJr ==
    <<"J", "o", "h", "n", " ", "D", "o", "e", " ", "J", "r">>

\* "john doe"
NameJohnDoeLower ==
    <<"j", "o", "h", "n", " ", "d", "o", "e">>

\* "alice johnson"
NameAliceJohnsonLower ==
    <<"a", "l", "i", "c", "e", " ", "j", "o", "h", "n", "s", "o", "n">>

\* "jane smith"
NameJaneSmith ==
    <<"j", "a", "n", "e", " ", "s", "m", "i", "t", "h">>

(***************************************************************************)
(* Inputs.                                                                 *)
(***************************************************************************)
MaxRawHundredths == 5200

\* every multiple of 0.01 from -0.05 to MaxRawHundredths / 100, and three
\* values around the 1000 threshold
RawYieldNumbers ==
    {Hundredths(h) : h \in -5 .. MaxRawHundredths}
        \cup {Whole(1000), Whole(1000) + 1, Whole(2000)}

RawYields ==
    {PyNone, PyObj, Str(TextAbc)} \cup {Num(k) : k \in RawYieldNumbers}

\* field values an untrusted record can carry where a number is expected
BadValues == {PyNone, Missing, Str(TextAbc)}

\* an object with attributes
Rec(fields) == [t |-> "rec", f |-> fields]

PriceAnalysisRecords ==
    [ total_return_percent :
          BadValues \cup {Num(-Whole(400) - 1), Num(-Whole(400)),
                          Num(Whole(15)), Num(Whole(400)), Num(Whole(400) + 1)},
      volatility :
          BadValues \cup {Num(-1), Num(0), Num(Whole(20)), Num(Whole(200)),
                          Num(Whole(200) + 1)},
      min_price : BadValues \cup {Num(0), Num(Whole(100)), Num(Whole(200))},
      max_price : BadValues \cup {Num(0), Num(Whole(100)), Num(Whole(200))},
      average_volume : BadValues \cup {Num(0), Num(Whole(1000))},
      trend_direction : {PyNone, Missing, Str(TextUpwardTrend)} ]

AllMissing(fields) == [f \in fields |-> Missing]

PriceAnalysisFields ==
    {"total_return_percent", "volatility", "min_price", "max_price",
     "average_volume", "trend_direction"}

\* the price_analysis values: None, an object without attributes, records
PriceAnalysisInputs ==
    {[t |-> "none", f |-> AllMissing(PriceAnalysisFields)],
     [t |-> "obj", f |-> AllMissing(PriceAnalysisFields)]}
        \cup {Rec(r) : r \in PriceAnalysisRecords}

\* the records the historical section is run on: the price bounds and the
\* trend vary, return and volatility are one good or one bad value
SectionInputs ==
    {pa \in PriceAnalysisInputs :
        pa.t = "rec" =>
           /\ pa.f.total_return_percent \in {Num(Whole(15)), Str(TextAbc)}
           /\ pa.f.volatility \in {Num(Whole(20)), PyNone}}

VolatilityMetricsFields ==
    {"historical_volatility", "max_drawdown", "beta", "sharpe_ratio",
     "volatility_regime"}

VolatilityMetricsRecords ==
    [ historical_volatility :
          BadValues \cup {Num(-1), Num(0), Num(Whole(35)), Num(Whole(250)),
                          Num(Whole(250) + 1)},
      max_drawdown :
          BadValues \cup {Num(-Whole(100) - 1), Num(-Whole(100)),
                          Num(-Whole(20)), Num(0), Num(1)},
      beta : {PyNone, Missing, Num(Whole(1)), Num(-Whole(50))},
      sharpe_ratio : {PyNone, Str(TextAbc), Num(Whole(2))},
      volatility_regime : {PyNone, Str(TextUpwardTrend)} ]

VolatilityMetricsInputs ==
    {[t |-> "none", f |-> AllMissing(VolatilityMetricsFields)],
     [t |-> "obj", f |-> AllMissing(VolatilityMetricsFields)]}
        \cup {Rec(r) : r \in VolatilityMetricsRecords}

MaxHalves == 12

\* numbers handed to the formatters: the halves around zero, values around
\* a thousands separator, fractions
FormatNumbers ==
    {h * (Scale \div 2) : h \in -MaxHalves .. MaxHalves}
        \cup {Hundredths(4), Hundredths(26), Whole(1) + 1, Hundredths(-4),
              Hundredths(99950), Hundredths(123440), Hundredths(123450),
              Hundredths(123460), Hundredths(123550), Hundredths(-123450),
              Hundredths(1234550), Whole(50)}

FormatInputs ==
    {PyNone, PyObj, Str(<<>>), Str(TextAbc), Str(NA), Str(Text42),
     Str(Text12_5), Str(TextMinus3_5)}
        \cup {Num(k) : k \in FormatNumbers}

\* format_percent scales by 100: its numbers stay below 2000
PercentInputs ==
    {x \in FormatInputs : IsNum(x) => Abs(x.n) <= Whole(2000)}

(***************************************************************************)
(* Inputs of the filters.                                                  *)
(***************************************************************************)
\* published_date / transaction_date strings
TimestampStrings ==
    {Str(x) : x \in
        {Ts20240501, Ts20230101, Ts20240202Padded, Ts20240202, Ts20240201,
         TsShortFields, TsZulu, TsNaive, TsSpace, TsOffset, TsShortTime,
         TsProse, <<>>, TextBlank, Ts20240230, Ts20240605, Ts20240601}}

\* a timestamp field: a string, None, or no such attribute
TimestampValues == TimestampStrings \cup {PyNone, Missing}

Article(published_date) == Rec([published_date |-> published_date])

Articles == {Article(x) : x \in TimestampValues}

\* a Python list, and None where a list was expected
ListOf(items) == [t |-> "list", items |-> items]

NoList == [t |-> "none", items |-> <<>>]

\* None and the lists of at most n elements of S
ListsUpTo(S, n) ==
    {NoList} \cup {ListOf(q) : q \in UNION {[1 .. k -> S] : k \in 0 .. n}}

MaxArticles == 2

AsOfDates == {Date(2024, 6, 1), Date(2024, 3, 1)}

MaxAgeDays == {0, 31, 120}

\* an article whose published_date is not a string (a number)
MalformedArticle == Article(Num(Whole(5)))

ArticleCalls ==
    [articles : ListsUpTo(Articles, MaxArticles)
                  \cup {ListOf(<<MalformedArticle>>),
                        ListOf(<<Article(Str(Ts20240501)), MalformedArticle>>)},
     as_of : AsOfDates, max_age_days : MaxAgeDays]

NameStrings ==
    {Str(x) : x \in
        {NameJohnDoe, NameJohnDoePadded, NameJaneSmithUpper,
         NameAliceJohnsonTab, NameMariaChen, <<>>, TextBlank,
         NameJohnTwoSpaces, NameJohndoe, NameJohnDoeJr, NameJaneSmith,
         NameJohnDoeLower, NameAliceJohnsonLower}}

Transaction(name, transaction_date) ==
    Rec([name |-> name, transaction_date |-> transaction_date])

\* transactions with a string name or no name attribute
NamedTransactions ==
    {Transaction(x, Str(Ts20240501)) : x \in NameStrings \cup {Missing}}

\* transactions whose name is not a string
MalformedTransactions ==
    {Transaction(x, Str(Ts20240501)) : x \in {PyNone, Num(Whole(5))}}

MaxTransactions == 3

TransactionCalls ==
    ListsUpTo(NamedTransactions, MaxTransactions)
        \cup {ListOf(<<m>>) : m \in MalformedTransactions}
        \cup {ListOf(<<x, m>>) : x \in NamedTransactions,
                                 m \in MalformedTransactions}

\* transactions for the recency filter: a real and a placeholder name with
\* a selection of timestamps, and one transaction without a name
DatedTransactions ==
    {Transaction(Str(x), d) :
        x \in {NameMariaChen, NameJohnDoe},
        d \in {Str(Ts20240501), Str(Ts20230101), Str(Ts20240202),
               Str(TsNaive), Str(TsShortTime), Str(TsZulu), Str(TsProse),
               PyNone}}
        \cup {Transaction(Str(<<>>), Str(Ts20240501))}

MaxDatedTransactions == 2

DatedTransactionCalls ==
    [transactions : ListsUpTo(DatedTransactions, MaxDatedTransactions)
                      \cup {ListOf(<<m>>) : m \in MalformedTransactions}
                      \cup {ListOf(<<Transaction(Str(NameMariaChen),
                                                 Num(Whole(5)))>>)},
     as_of : AsOfDates, max_age_days : MaxAgeDays]

\* "A" .. "F"
TitleA == <<"A">>
TitleB == <<"B">>
TitleC == <<"C">>
TitleD == <<"D">>
TitleE == <<"E">>
TitleF == <<"F">>

\* "Wire"
SourceWire ==
    <<"W", "i", "r", "e">>

\* "  Shares rose.  "
ContentPadded ==
    <<" ", " ", "S", "h", "a", "r", "e", "s", " ", "r", "o", "s", "e", ".",
      " ", " ">>

\* 250 characters, "x" but for a space at the 237th
ContentLong ==
    [i \in 1 .. 250 |-> IF i = 237 THEN " " ELSE "x"]

NewsArticle(title, published_date, content) ==
    Rec([title |-> title, source |-> Str(SourceWire),
         published_date |-> published_date, content |-> content])

\* the articles of a news report: four of distinct dates inside the window
\* of 2024-06-01, one of them after it, a stale one and an undated one
NewsArticles ==
    {NewsArticle(Str(TitleA), Str(Ts20240501), PyNone),
     NewsArticle(Str(TitleB), Str(Ts20240601), Str(ContentPadded)),
     NewsArticle(Str(TitleC), Str(Ts20240202), Str(ContentLong)),
     NewsArticle(Str(TitleD), Str(Ts20240605), Str(<<>>)),
     NewsArticle(Str(TitleE), Str(Ts20230101), Str(ContentPadded)),
     NewsArticle(Str(TitleF), PyNone, Str(ContentPadded))}

MaxNewsArticles == 4

\* a news report: its articles, its sentiment analysis and its key insights
NewsReport(articles, sentiment_analysis, key_insights) ==
    Rec([articles |-> articles, sentiment_analysis |-> sentiment_analysis,
         key_insights |-> key_insights])

SentimentAnalysis(overall_sentiment) ==
    Rec([sentiment_trend |-> PyNone, key_themes |-> PyNone,
         overall_sentiment |-> overall_sentiment,
         market_impact_assessment |-> Str(TextAbc)])

\* reports whose attribute reads raise: no title, no content, a numeric
\* content, a sentiment analysis without overall_sentiment, no key_insights
MalformedNewsReports ==
    {NewsReport(ListOf(<<Rec([title |-> Missing, source |-> Str(SourceWire),
                              published_date |-> Str(Ts20240501),
                              content |-> PyNone])>>), PyNone, PyNone),
     NewsReport(ListOf(<<NewsArticle(Str(TitleA), Str(Ts20240501),
                                     Missing)>>), PyNone, PyNone),
     NewsReport(ListOf(<<NewsArticle(Str(TitleA), Str(Ts20240501),
                                     Num(Whole(5)))>>), PyNone, PyNone),
     NewsReport(ListOf(<<>>), SentimentAnalysis(Missing), PyNone),
     NewsReport(ListOf(<<>>), PyNone, Missing)}

NewsReports ==
    {NewsReport(list, PyNone, PyNone) :
        list \in ListsUpTo(NewsArticles, MaxNewsArticles)}
        \cup {NewsReport(Missing, SentimentAnalysis(Str(TextAbc)), PyNone)}
        \cup MalformedNewsReports

NewsCalls ==
    [report : NewsReports, report_date : {Date(2024, 6, 1)}]

(***************************************************************************)
(* The section builders of generate_all_reports, by whether they return    *)
(* the ticker's section or raise.  The text of a section is not modelled.  *)
(***************************************************************************)
\* the default max_age_days of filter_recent_transactions
DefaultTransactionMaxAge == 365

\* recent_txns[:3]
MaxRenderedTransactions == 3

\* the section of a ticker, once built
Section == Ret(<<>>)

\* a block that reads the attributes `fields` of the attribute `f` of the
\* report when that attribute is truthy
ReadsOf(report, f, fields) ==
    LET o == GetAttrNone(report, f)
    IN  IF o.t # "rec" THEN Section
        ELSE IF \E g \in fields : Attr(o, g).t = "missing"
             THEN Raise("AttributeError")
        ELSE Section

\* _generate_historical_section: the executive summary is read, the
\* price-analysis block is rendered, then the technical analysis, the market
\* comparison, the risk assessment, the outlook and the recommendations are
\* read; the reports of the model have no fundamental analysis
HistoricalSection(report) ==
    LET block == PriceAnalysisBlock(GetAttrNone(report, "price_analysis"))
    IN  IF Attr(report, "executive_summary").t = "missing"
        THEN Raise("AttributeError")
        ELSE IF Raised(block) THEN block
        ELSE IF Attr(report, "technical_analysis").t = "missing"
             THEN Raise("AttributeError")
        ELSE IF Attr(report, "market_comparison").t = "missing"
             THEN Raise("AttributeError")
        ELSE IF Raised(ReadsOf(report, "market_comparison",
                               {"benchmark_ticker"}))
             THEN Raise("AttributeError")
        ELSE IF \E g \in {"risk_assessment", "investment_outlook",
                          "key_recommendations"} :
                    Attr(report, g).t = "missing"
             THEN Raise("AttributeError")
        ELSE Section

\* _generate_volatility_section: the metrics block, rendered when the
\* validator accepts the metrics, then the risk assessment
VolatilitySection(report) ==
    LET vol_metrics == GetAttrNone(report, "metrics")
        valid == is_valid_volatility_metrics(vol_metrics)
        risk == ReadsOf(report, "risk_assessment",
                        {"overall_risk_level", "volatility_trends",
                         "risk_factors", "hedging_recommendations"})
    IN  IF vol_metrics.t = "none" THEN risk
        ELSE IF Raised(valid) THEN valid
        ELSE IF ~valid.val THEN risk
        ELSE IF Attr(vol_metrics, "volatility_regime").t = "missing"
             THEN Raise("AttributeError")
        ELSE risk

\* _generate_insider_section: the first three recent transactions are
\* rendered, each by its name, title, transaction_type, shares and date
InsiderSection(report_date, report) ==
    LET recent_txns ==
            filter_recent_transactions(
                GetAttrList(report, "recent_transactions"), report_date,
                DefaultTransactionMaxAge)
    IN  IF Raised(recent_txns) THEN recent_txns
        ELSE IF \E i \in 1 .. Len(FirstN(recent_txns.val,
                                         MaxRenderedTransactions)) :
                    \E g \in {"name", "title", "transaction_type", "shares",
                              "transaction_date"} :
                        Attr(recent_txns.val[i], g).t = "missing"
             THEN Raise("AttributeError")
        ELSE Section

\* _generate_sentiment_section: a truthy market_sentiment is rendered by its
\* overall_sentiment and its sentiment_score, formatted with ".2f"
SentimentSection(report) ==
    LET market_sentiment == GetAttrNone(report, "market_sentiment")
        score == Attr(market_sentiment, "sentiment_score")
    IN  IF market_sentiment.t # "rec" THEN Section
        ELSE IF Attr(market_sentiment, "overall_sentiment").t = "missing"
             THEN Raise("AttributeError")
        ELSE IF score.t = "str" THEN Raise("ValueError")
        ELSE IF score.t = "none" THEN Raise("TypeError")
        ELSE Section

(***************************************************************************)
(* The reports the agents return to generate_all_reports.                  *)
(***************************************************************************)
\* "AAPL", "MSFT", "JPM", "JNJ", "PG", "XOM", "UNH", "CAT", the first of the
\* 28 tickers of ReportGenerator.stock_tickers
stock_tickers ==
    <<"AAPL", "MSFT", "JPM", "JNJ", "PG", "XOM", "UNH", "CAT">>

\* the number of tickers of a run
MaxTickers == 3

Tickers == SubSeq(stock_tickers, 1, MaxTickers)

\* get_report_date()
ReportDate == Date(2024, 6, 1)

PriceAnalysis(trend_direction) ==
    Rec([total_return_percent |-> Num(Whole(15)),
         volatility |-> Num(Whole(20)),
         min_price |-> Num(Whole(100)), max_price |-> Num(Whole(200)),
         average_volume |-> Num(Whole(1000)),
         trend_direction |-> trend_direction])

\* a historical report, and one whose accepted price analysis has no trend
HistoricalReports ==
    {Rec([executive_summary |-> Str(TextAbc),
          price_analysis |-> PriceAnalysis(t),
          technical_analysis |-> PyNone,
          market_comparison |-> Rec([benchmark_ticker |-> Str(TextAbc)]),
          risk_assessment |-> Str(TextAbc),
          investment_outlook |-> Str(TextAbc),
          key_recommendations |-> PyNone]) :
        t \in {Str(TextUpwardTrend), PyNone}}

VolatilityMetrics(volatility_regime) ==
    Rec([historical_volatility |-> Num(Whole(35)),
         max_drawdown |-> Num(-Whole(20)), beta |-> Num(Whole(1)),
         sharpe_ratio |-> Num(Whole(2)),
         volatility_regime |-> volatility_regime])

\* a volatility report, and one whose valid metrics have no regime
VolatilityReports ==
    {Rec([metrics |-> VolatilityMetrics(r), risk_assessment |-> PyNone]) :
        r \in {Str(TextUpwardTrend), Missing}}

\* a news report, and one without key_insights
RunNewsReports ==
    {NewsReport(ListOf(<<NewsArticle(Str(TitleA), Str(Ts20240501),
                                     PyNone)>>), PyNone, k) :
        k \in {PyNone, Missing}}

InsiderTransaction(name, title, transaction_date) ==
    Rec([name |-> name, title |-> title, transaction_type |-> Str(TextAbc),
         shares |-> Num(Whole(100)), transaction_date |-> transaction_date])

\* an insider report, and one whose recent transaction has no title
InsiderReports ==
    {Rec([recent_transactions |->
              ListOf(<<InsiderTransaction(Str(NameMariaChen), t,
                                          Str(Ts20240501))>>)]) :
        t \in {Str(TextAbc), Missing}}

\* a sentiment report, and one whose market sentiment has no
\* overall_sentiment
SentimentReports ==
    {Rec([market_sentiment |->
              Rec([overall_sentiment |-> o,
                   sentiment_score |-> Num(Whole(1))])]) :
        o \in {Str(TextAbc), Missing}}

\* what asyncio.gather returns for a ticker
AgentReports ==
    [historical : HistoricalReports, volatility : VolatilityReports,
     news : RunNewsReports, insider : InsiderReports,
     sentiment : SentimentReports]

\* the report variables before the first gather
NoReports ==
    [historical |-> PyNone, volatility |-> PyNone, news |-> PyNone,
     insider |-> PyNone, sentiment |-> PyNone]

\* the six files of a run
ReportFiles ==
    {"reports/historical.md", "reports/volatility.md", "reports/news.md",
     "reports/insider_trading.md", "reports/sentiment.md",
     "reports/market_conditions.md"}

\* no run of generate_all_reports is in progress
NoRun ==
    /\ pc = "idle"
    /\ index = 0
    /\ reports = NoReports
    /\ historical_all = <<>>
    /\ volatility_all = <<>>
    /\ news_all = <<>>
    /\ insider_all = <<>>
    /\ sentiment_all = <<>>
    /\ log = <<>>
    /\ written = {}

(***************************************************************************)
(* The specification: a pending call of one helper, then its outcome.      *)
(***************************************************************************)
Call(name, inputs) ==
    /\ op = name
    /\ arg \in inputs
    /\ res = Pending
    /\ NoRun

Init ==
    \/ Call("sanitize_dividend_yield", RawYields)
    \/ Call("format_percent",
            [raw : PercentInputs, decimals : {0, 2, 4},
             assume_fractional : BOOLEAN])
    \/ Call("format_ratio", [raw : FormatInputs, decimals : {2, 4}])
    \/ Call("format_currency", FormatInputs)
    \/ Call("format_integer", FormatInputs)
    \/ Call("is_price_analysis_reliable", PriceAnalysisInputs)
    \/ Call("is_valid_volatility_metrics", VolatilityMetricsInputs)
    \/ Call("filter_recent_articles", ArticleCalls)
    \/ Call("filter_valid_transactions", TransactionCalls)
    \/ Call("filter_recent_transactions", DatedTransactionCalls)
    \/ Call("_generate_historical_section", SectionInputs)
    \/ Call("_generate_news_section", NewsCalls)

\* the pending call is a call of `name`
Runs(name) == op = name /\ res.kind = "pending"

\* the call of `name` has run
Ran(name) == op = name /\ res.kind # "pending"

CallSanitizeDividendYield ==
    /\ Runs("sanitize_dividend_yield")
    /\ res' = sanitize_dividend_yield(arg)
    /\ UNCHANGED <<op, arg, run>>

CallFormatPercent ==
    /\ Runs("format_percent")
    /\ res' = format_percent(arg.raw, arg.decimals, arg.assume_fractional)
    /\ UNCHANGED <<op, arg, run>>

CallFormatRatio ==
    /\ Runs("format_ratio")
    /\ res' = format_ratio(arg.raw, arg.decimals)
    /\ UNCHANGED <<op, arg, run>>

CallFormatCurrency ==
    /\ Runs("format_currency")
    /\ res' = format_currency(arg)
    /\ UNCHANGED <<op, arg, run>>

CallFormatInteger ==
    /\ Runs("format_integer")
    /\ res' = format_integer(arg)
    /\ UNCHANGED <<op, arg, run>>

CallIsPriceAnalysisReliable ==
    /\ Runs("is_price_analysis_reliable")
    /\ res' = is_price_analysis_reliable(arg)
    /\ UNCHANGED <<op, arg, run>>

CallIsValidVolatilityMetrics ==
    /\ Runs("is_valid_volatility_metrics")
    /\ res' = is_valid_volatility_metrics(arg)
    /\ UNCHANGED <<op, arg, run>>

CallFilterRecentArticles ==
    /\ Runs("filter_recent_articles")
    /\ res' = filter_recent_articles(arg.articles, arg.as_of,
                                     arg.max_age_days)
    /\ UNCHANGED <<op, arg, run>>

CallFilterValidTransactions ==
    /\ Runs("filter_valid_transactions")
    /\ res' = filter_valid_transactions(arg)
    /\ UNCHANGED <<op, arg, run>>

CallFilterRecentTransactions ==
    /\ Runs("filter_recent_transactions")
    /\ res' = filter_recent_transactions(arg.transactions, arg.as_of,
                                         arg.max_age_days)
    /\ UNCHANGED <<op, arg, run>>

CallGenerateHistoricalSection ==
    /\ Runs("_generate_historical_section")
    /\ res' = PriceAnalysisBlock(arg)
    /\ UNCHANGED <<op, arg, run>>

CallGenerateNewsSection ==
    /\ Runs("_generate_news_section")
    /\ res' = _generate_news_section(arg.report_date, arg.report)
    /\ UNCHANGED <<op, arg, run>>

Next ==
    \/ CallSanitizeDividendYield
    \/ CallFormatPercent
    \/ CallFormatRatio
    \/ CallFormatCurrency
    \/ CallFormatInteger
    \/ CallIsPriceAnalysisReliable
    \/ CallIsValidVolatilityMetrics
    \/ CallFilterRecentArticles
    \/ CallFilterValidTransactions
    \/ CallFilterRecentTransactions
    \/ CallGenerateHistoricalSection
    \/ CallGenerateNewsSection

Spec == Init /\ [][Next]_vars

(***************************************************************************)
(* ReportGenerator.generate_all_reports: the ticker loop, the market       *)
(* conditions report, and the writing of the files.                        *)
(***************************************************************************)
\* the aggregated reports start as their headings, index is at the first
\* ticker
InitReports ==
    /\ op = "generate_all_reports"
    /\ arg = [report_date |-> ReportDate]
    /\ res = Pending
    /\ pc = "gather"
    /\ index = 1
    /\ reports = NoReports
    /\ historical_all = <<>>
    /\ volatility_all = <<>>
    /\ news_all = <<>>
    /\ insider_all = <<>>
    /\ sentiment_all = <<>>
    /\ log = <<>>
    /\ written = {}

ticker == Tickers[index]

\* the loop moves to the next ticker, or past the last one; the report
\* variables are not read again before the next gather assigns them
NextTicker(line) ==
    /\ log' = Append(log, line)
    /\ index' = index + 1
    /\ pc' = IF index < Len(Tickers) THEN "gather" ELSE "market"
    /\ reports' = NoReports

\* except Exception: the error is printed and the loop continues
Except ==
    /\ NextTicker("error")
    /\ UNCHANGED <<historical_all, volatility_all, news_all, insider_all,
                   sentiment_all>>

\* the five agent calls of the ticker, gathered: their reports, or the
\* exception of one of them
Gather ==
    /\ pc = "gather"
    /\ \/ /\ \E r \in AgentReports : reports' = r
          /\ pc' = "historical"
          /\ UNCHANGED <<index, log, historical_all, volatility_all,
                         news_all, insider_all, sentiment_all>>
       \/ Except
    /\ UNCHANGED <<op, arg, res, written>>

AppendHistorical ==
    /\ pc = "historical"
    /\ IF Raised(HistoricalSection(reports.historical)) THEN Except
       ELSE /\ historical_all' = Append(historical_all, ticker)
            /\ pc' = "volatility"
            /\ UNCHANGED <<index, reports, log, volatility_all, news_all,
                           insider_all, sentiment_all>>
    /\ UNCHANGED <<op, arg, res, written>>

AppendVolatility ==
    /\ pc = "volatility"
    /\ IF Raised(VolatilitySection(reports.volatility)) THEN Except
       ELSE /\ volatility_all' = Append(volatility_all, ticker)
            /\ pc' = "news"
            /\ UNCHANGED <<index, reports, log, historical_all, news_all,
                           insider_all, sentiment_all>>
    /\ UNCHANGED <<op, arg, res, written>>

AppendNews ==
    /\ pc = "news"
    /\ IF Raised(_generate_news_section(arg.report_date, reports.news))
       THEN Except
       ELSE /\ news_all' = Append(news_all, ticker)
            /\ pc' = "insider"
            /\ UNCHANGED <<index, reports, log, historical_all,
                           volatility_all, insider_all, sentiment_all>>
    /\ UNCHANGED <<op, arg, res, written>>

AppendInsider ==
    /\ pc = "insider"
    /\ IF Raised(InsiderSection(arg.report_date, reports.insider))
       THEN Except
       ELSE /\ insider_all' = Append(insider_all, ticker)
            /\ pc' = "sentiment"
            /\ UNCHANGED <<index, reports, log, historical_all,
                           volatility_all, news_all, sentiment_all>>
    /\ UNCHANGED <<op, arg, res, written>>

\* the last append of the ticker, and the line of its success
AppendSentiment ==
    /\ pc = "sentiment"
    /\ IF Raised(SentimentSection(reports.sentiment)) THEN Except
       ELSE /\ sentiment_all' = Append(sentiment_all, ticker)
            /\ NextTicker("ok")
            /\ UNCHANGED <<historical_all, volatility_all, news_all,
                           insider_all>>
    /\ UNCHANGED <<op, arg, res, written>>

\* the market conditions report and its section, outside the try: an
\* exception ends the run before any file is written
MarketConditions ==
    /\ pc = "market"
    /\ \E raised \in BOOLEAN :
           /\ pc' = IF raised THEN "raised" ELSE "write"
           /\ res' = IF raised THEN Raise("Exception") ELSE res
    /\ UNCHANGED <<op, arg, index, reports, historical_all, volatility_all,
                   news_all, insider_all, sentiment_all, log, written>>

\* the six _write_report calls
WriteReports ==
    /\ pc = "write"
    /\ written' = ReportFiles
    /\ pc' = "done"
    /\ res' = Ret(PyNone)
    /\ UNCHANGED <<op, arg, index, reports, historical_all, volatility_all,
                   news_all, insider_all, sentiment_all, log>>

NextReports ==
    \/ Gather
    \/ AppendHistorical
    \/ AppendVolatility
    \/ AppendNews
    \/ AppendInsider
    \/ AppendSentiment
    \/ MarketConditions
    \/ WriteReports

SpecReports == InitReports /\ [][NextReports]_vars

(***************************************************************************)
(* Properties.                                                             *)
(***************************************************************************)
\* the value handed to the formatter that ran
FormatterRaw ==
    IF op \in {"format_percent", "format_ratio"} THEN arg.raw ELSE arg

Formatters ==
    {"format_percent", "format_ratio", "format_currency", "format_integer"}

\* absent, or not coercible to a number by float()
NotANumber(raw) == raw.t = "none" \/ Raised(PyFloat(raw))

\* C1: for every raw dividend yield that is absent or a number,
\* sanitize_dividend_yield returns None or a fraction f with 0 <= f <= 0.25.
C1_YieldAtMostQuarter ==
    (Ran("sanitize_dividend_yield") /\ arg.t \in {"none", "num"}) =>
        /\ Returned(res)
        /\ \/ res.val.t = "none"
           \/ /\ res.val.t = "num"
              /\ res.val.n >= 0
              /\ res.val.n <= Scale \div 4

\* C2: each of the four formatters returns exactly "N/A" for an input that
\* is absent or not coercible to a number, and none of them raises for any
\* input.
C2_FormattersDegradeToNA ==
    (op \in Formatters /\ res.kind # "pending") =>
        /\ Returned(res)
        /\ NotANumber(FormatterRaw) => res.val = Str(NA)

\* a field that is absent, None, or present with a value that is not number
Malformed(x) == x.t \in {"missing", "none", "str", "obj"}

\* C3: no validator or filter raises on malformed input: a validator
\* returns False for a record with a malformed required field, and a filter
\* returns a list.
C3_NoRaiseOnMalformedInput ==
    /\ (Ran("is_price_analysis_reliable")
          /\ \E f \in PriceAnalysisFields \ {"trend_direction"} :
                 Malformed(Attr(arg, f)))
          => (Returned(res) /\ res.val = FALSE)
    /\ (Ran("is_valid_volatility_metrics")
          /\ \E f \in {"historical_volatility", "max_drawdown"} :
                 Malformed(Attr(arg, f)))
          => (Returned(res) /\ res.val = FALSE)
    /\ (Ran("filter_recent_articles") \/ Ran("filter_valid_transactions")
          \/ Ran("filter_recent_transactions"))
          => Returned(res)

\* n / Scale rounded to the nearest integer, ties away from zero
RoundHalfAway(v) ==
    IF v < 0 THEN -((2 * (-v) + Scale) \div (2 * Scale))
    ELSE (2 * v + Scale) \div (2 * Scale)

\* C4: for every numeric input format_integer renders the value rounded to
\* the nearest integer, ties rounded half away from zero (1234.5 gives
\* "1,235", n + 0.5 gives n + 1).
C4_IntegerRoundsHalfAwayFromZero ==
    (Ran("format_integer") /\ IsNum(arg)) =>
        res = Ret(Str(FormatIntCommas(RoundHalfAway(arg.n))))

\* the record passes is_price_analysis_reliable
Accepted(pa) ==
    LET ok == is_price_analysis_reliable(pa) IN Returned(ok) /\ ok.val

\* C5: is_price_analysis_reliable returns True only for records whose
\* trend_direction is present too, so every record the validator accepts is
\* rendered by the historical section without failure.
C5_AcceptedRecordHasTrend ==
    /\ (Ran("is_price_analysis_reliable") /\ Returned(res) /\ res.val)
          => Attr(arg, "trend_direction").t \notin {"missing", "none"}
    /\ (Ran("_generate_historical_section") /\ Accepted(arg))
          => Returned(res)

\* the field is a number, None, or absent
NumericOrNull(x) == x.t \in {"num", "none", "missing"}

\* C6: for every record with numeric-or-null fields,
\* is_price_analysis_reliable returns True exactly when the record and its
\* five numeric fields are present, |total_return_percent| <= 400,
\* 0 <= volatility <= 200, both prices positive, min_price < max_price and
\* average_volume > 0.
C6_PriceAnalysisVerdict ==
    (Ran("is_price_analysis_reliable")
       /\ \A f \in PriceAnalysisFields \ {"trend_direction"} :
              NumericOrNull(Attr(arg, f)))
    => /\ Returned(res)
       /\ res.val <=>
            /\ arg.t = "rec"
            /\ \A f \in PriceAnalysisFields \ {"trend_direction"} :
                   IsNum(arg.f[f])
            /\ arg.f.total_return_percent.n >= -Whole(400)
            /\ arg.f.total_return_percent.n <= Whole(400)
            /\ arg.f.volatility.n >= 0
            /\ arg.f.volatility.n <= Whole(200)
            /\ arg.f.min_price.n > 0
            /\ arg.f.max_price.n > 0
            /\ arg.f.min_price.n < arg.f.max_price.n
            /\ arg.f.average_volume.n > 0

\* a record at the accepted boundaries (return 400, volatility 0) was
\* judged reliable
C6_Witness ==
    /\ Ran("is_price_analysis_reliable")
    /\ arg.t = "rec"
    /\ arg.f.total_return_percent = Num(Whole(400))
    /\ arg.f.volatility = Num(0)
    /\ arg.f.min_price = Num(Whole(100))
    /\ arg.f.max_price = Num(Whole(200))
    /\ Returned(res) /\ res.val

\* C7: sanitize_dividend_yield follows the piecewise rule: absent or
\* raw < 0 gives None; raw > 50 gives None; 1 < raw <= 50 gives raw / 100
\* when raw <= 25 and None otherwise; 0 <= raw <= 1 gives raw unchanged.
C7_SanitizePiecewise ==
    (Ran("sanitize_dividend_yield") /\ arg.t \in {"none", "num"}) =>
        res = Ret(IF arg.t = "none" \/ arg.n < 0 THEN PyNone
                  ELSE IF arg.n > Whole(50) THEN PyNone
                  ELSE IF arg.n > Whole(1)
                       THEN (IF arg.n <= Whole(25) THEN Num(arg.n \div 100)
                                                   ELSE PyNone)
                  ELSE arg)

\* the percent 25 was normalised to the fraction 0.25
C7_Witness ==
    /\ Ran("sanitize_dividend_yield")
    /\ arg = Num(Whole(25))
    /\ res = Ret(Num(Hundredths(25)))

\* C8: for every record with numeric-or-null fields,
\* is_valid_volatility_metrics returns True exactly when the record is
\* present, 0 <= historical_volatility <= 250 and -100 <= max_drawdown <= 0;
\* beta, sharpe_ratio and volatility_regime do not influence the verdict.
C8_VolatilityVerdict ==
    (Ran("is_valid_volatility_metrics")
       /\ NumericOrNull(Attr(arg, "historical_volatility"))
       /\ NumericOrNull(Attr(arg, "max_drawdown")))
    => /\ Returned(res)
       /\ res.val <=>
            /\ arg.t = "rec"
            /\ IsNum(arg.f.historical_volatility)
            /\ arg.f.historical_volatility.n >= 0
            /\ arg.f.historical_volatility.n <= Whole(250)
            /\ IsNum(arg.f.max_drawdown)
            /\ arg.f.max_drawdown.n >= -Whole(100)
            /\ arg.f.max_drawdown.n <= 0

\* a record at the accepted boundaries (volatility 250, drawdown 0) whose
\* advisory fields are missing or not numbers was judged valid
C8_Witness ==
    /\ Ran("is_valid_volatility_metrics")
    /\ arg.t = "rec"
    /\ arg.f.historical_volatility = Num(Whole(250))
    /\ arg.f.max_drawdown = Num(0)
    /\ arg.f.beta = Missing
    /\ arg.f.sharpe_ratio = Str(TextAbc)
    /\ Returned(res) /\ res.val

\* every published_date of the list is a str, None, or absent
DatesAreStrings(list) ==
    \A i \in 1 .. Len(list.items) :
        Attr(list.items[i], "published_date").t \in {"str", "none", "missing"}

\* the article's published_date parses to a date within the window
InWindow(article, as_of, max_age_days) ==
    LET d == _parse_date(GetAttrEmpty(article, "published_date"))
    IN  /\ Returned(d)
        /\ d.val # NoDate
        /\ DaysBetween(as_of, d.val) <= max_age_days

\* timestamps that are no date: missing, None, empty, blank, prose, and
\* the 30th of February
Undated ==
    {Missing, PyNone, Str(<<>>), Str(TextBlank), Str(TsProse),
     Str(Ts20240230)}

\* C9: filter_recent_articles returns exactly the sub-sequence of the input,
\* in input order, of the articles whose published_date parses to a date
\* with as_of - published <= max_age_days; an article with a missing, empty
\* or unparseable date is never in the output.
C9_RecentArticles ==
    (Ran("filter_recent_articles") /\ DatesAreStrings(arg.articles)) =>
        LET Keep(a) == InWindow(a, arg.as_of, arg.max_age_days)
        IN  /\ Returned(res)
            /\ res.val = SelectSeq(arg.articles.items, Keep)
            /\ \A i \in 1 .. Len(res.val) :
                   Attr(res.val[i], "published_date") \notin Undated

\* of an article 121 days old and one exactly 120 days old, with a window
\* of 120 days, only the second was kept
C9_Witness ==
    /\ Ran("filter_recent_articles")
    /\ arg.as_of = Date(2024, 6, 1)
    /\ arg.max_age_days = 120
    /\ arg.articles =
         ListOf(<<Article(Str(Ts20240201)), Article(Str(Ts20240202))>>)
    /\ res = Ret(<<Article(Str(Ts20240202))>>)

\* every name of the list is a str or absent
NamesAreStrings(list) ==
    \A i \in 1 .. Len(list.items) :
        Attr(list.items[i], "name").t \in {"str", "missing"}

\* the names of the inputs that are neither empty nor a placeholder
RealNames ==
    {Str(NameMariaChen), Str(NameJohnTwoSpaces), Str(NameJohndoe),
     Str(NameJohnDoeJr)}

\* C10: filter_valid_transactions returns exactly the sub-sequence of the
\* input, in input order, of the transactions whose name, trimmed and
\* lower-cased, is non-empty and none of "john doe", "jane smith",
\* "alice johnson"; a placeholder in any casing or padding is dropped and
\* every other name is kept.
C10_ValidTransactions ==
    (Ran("filter_valid_transactions") /\ NamesAreStrings(arg)) =>
        LET Folded(txn) == Lower(Strip(GetAttrEmpty(txn, "name").s))
            Keep(txn) ==
                /\ Folded(txn) # <<>>
                /\ Folded(txn) # NameJohnDoeLower
                /\ Folded(txn) # NameJaneSmith
                /\ Folded(txn) # NameAliceJohnsonLower
            Real(txn) == Attr(txn, "name") \in RealNames
        IN  /\ Returned(res)
            /\ res.val = SelectSeq(arg.items, Keep)
            /\ res.val = SelectSeq(arg.items, Real)

\* of a padded placeholder, a real name and an upper-case placeholder, only
\* the real name was kept
C10_Witness ==
    /\ Ran("filter_valid_transactions")
    /\ arg = ListOf(<<Transaction(Str(NameJohnDoePadded), Str(Ts20240501)),
                      Transaction(Str(NameMariaChen), Str(Ts20240501)),
                      Transaction(Str(NameJaneSmithUpper), Str(Ts20240501))>>)
    /\ res = Ret(<<Transaction(Str(NameMariaChen), Str(Ts20240501))>>)

\* every name of the list is a str or absent, and every transaction_date a
\* str, None, or absent
TransactionsAreStrings(list) ==
    \A i \in 1 .. Len(OrEmpty(list)) :
        /\ Attr(OrEmpty(list)[i], "name").t \in {"str", "missing"}
        /\ Attr(OrEmpty(list)[i], "transaction_date").t
               \in {"str", "none", "missing"}

\* the transaction's transaction_date, parsed as an article's published_date
\* is, is a date within the window
InArticleWindow(txn, as_of, max_age_days) ==
    LET d == _parse_date(GetAttrEmpty(txn, "transaction_date"))
    IN  /\ Returned(d)
        /\ d.val # NoDate
        /\ DaysBetween(as_of, d.val) <= max_age_days

\* C11: filter_recent_transactions returns exactly the sub-sequence, in input
\* order, of the output of filter_valid_transactions whose transaction_date
\* is accepted by the date parsing of the articles and lies within the
\* window, as_of - date <= max_age_days.
C11_RecentTransactionsUseArticleRule ==
    (Ran("filter_recent_transactions")
         /\ TransactionsAreStrings(arg.transactions)) =>
        LET Keep(txn) == InArticleWindow(txn, arg.as_of, arg.max_age_days)
        IN  /\ Returned(res)
            /\ res.val =
                   SelectSeq(filter_valid_transactions(arg.transactions).val,
                             Keep)

\* C12: each filter is idempotent: filter_recent_articles,
\* filter_valid_transactions and filter_recent_transactions, applied to their
\* own output with the same as_of and max_age_days, return that output: the
\* same elements in the same order.
C12_FiltersIdempotent ==
    /\ (Ran("filter_recent_articles") /\ Returned(res)) =>
           LET again == filter_recent_articles(ListOf(res.val), arg.as_of,
                                               arg.max_age_days)
           IN  Returned(again) /\ again.val = res.val
    /\ (Ran("filter_valid_transactions") /\ Returned(res)) =>
           LET again == filter_valid_transactions(ListOf(res.val))
           IN  Returned(again) /\ again.val = res.val
    /\ (Ran("filter_recent_transactions") /\ Returned(res)) =>
           LET again == filter_recent_transactions(ListOf(res.val), arg.as_of,
                                                   arg.max_age_days)
           IN  Returned(again) /\ again.val = res.val

\* of a stale transaction and a recent one, the filter kept the recent one,
\* and keeps it when applied to that output
C12_Witness ==
    /\ Ran("filter_recent_transactions")
    /\ arg.as_of = Date(2024, 6, 1)
    /\ arg.max_age_days = 120
    /\ arg.transactions =
         ListOf(<<Transaction(Str(NameMariaChen), Str(Ts20230101)),
                  Transaction(Str(NameMariaChen), Str(Ts20240501))>>)
    /\ res = Ret(<<Transaction(Str(NameMariaChen), Str(Ts20240501))>>)
    /\ filter_recent_transactions(ListOf(res.val), arg.as_of,
                                  arg.max_age_days) = res

\* the report's articles are a list of articles with title, source and
\* content, and the report has its key_insights
WellFormedNewsReport(report) ==
    report \in NewsReports \ MalformedNewsReports

\* the day a timestamp that parses stands for
PublishedOn(published_date) ==
    Ordinal(_parse_date(published_date).val)

\* C13: the news section renders at most three articles, and they are the
\* three with the latest published_date among the articles that pass
\* filter_recent_articles, whatever the order of the report's articles:
\* every rendered article passes the filter, as many are rendered as pass
\* it, up to three, and fewer than three of those that pass are fresher
\* than a rendered one.
C13_NewsRendersFreshestThree ==
    (Ran("_generate_news_section") /\ WellFormedNewsReport(arg.report)) =>
        LET recent ==
                filter_recent_articles(GetAttrList(arg.report, "articles"),
                                       arg.report_date,
                                       DefaultArticleMaxAge).val
            Fresher(entry) ==
                {i \in 1 .. Len(recent) :
                    PublishedOn(Attr(recent[i], "published_date"))
                        > PublishedOn(entry.date)}
        IN  /\ Returned(res)
            /\ Len(res.val) <= 3
            /\ Len(res.val) = IF Len(recent) < 3 THEN Len(recent) ELSE 3
            /\ \A k \in 1 .. Len(res.val) :
                   /\ \E i \in 1 .. Len(recent) :
                          RenderedArticle(recent[i]) = Ret(res.val[k])
                   /\ Cardinality(Fresher(res.val[k])) < 3

\* the ticker loop of generate_all_reports has finished
LoopFinished == pc \in {"market", "write", "done", "raised"}

\* the tickers that have a section in the aggregated report
SectionsOf(aggregate) == {aggregate[i] : i \in 1 .. Len(aggregate)}

\* C14: after the ticker loop of generate_all_reports, every ticker has its
\* section in all five aggregated reports or in none of them, whatever agent
\* call or section builder raised, and every ticker has been processed: the
\* loop printed one line for each.
C14_PerTickerAllOrNothing ==
    LoopFinished =>
        /\ \A i \in 1 .. Len(Tickers) :
               \/ /\ Tickers[i] \in SectionsOf(historical_all)
                  /\ Tickers[i] \in SectionsOf(volatility_all)
                  /\ Tickers[i] \in SectionsOf(news_all)
                  /\ Tickers[i] \in SectionsOf(insider_all)
                  /\ Tickers[i] \in SectionsOf(sentiment_all)
               \/ /\ Tickers[i] \notin SectionsOf(historical_all)
                  /\ Tickers[i] \notin SectionsOf(volatility_all)
                  /\ Tickers[i] \notin SectionsOf(news_all)
                  /\ Tickers[i] \notin SectionsOf(insider_all)
                  /\ Tickers[i] \notin SectionsOf(sentiment_all)
        /\ Len(log) = Len(Tickers)

====
